---- MODULE Spec2Model ----
(***************************************************************************)
(* Model of src/KG_creator_networkx.py: the construction of the knowledge  *)
(* graph from concept rows and connection rows (create_knowledge_graph),   *)
(* the concept-centric projection (export_to_json) and the upward walk     *)
(* through the containment hierarchy (trace_container_path).               *)
(*                                                                         *)
(* The graph G is a networkx DiGraph.  It is modelled by what the program  *)
(* observes of it: the nodes in insertion order, one attribute dictionary  *)
(* per node, the ordered pairs that are edges in insertion order, and one  *)
(* attribute dictionary per edge.  A dictionary is a function whose        *)
(* DOMAIN is its set of keys, so "'k' in d" is "k \in DOMAIN d".           *)
(***************************************************************************)
EXTENDS Integers, Sequences, FiniteSets, TLC

VARIABLES
    concepts_df,   \* the concept rows read by load_data
    ci,            \* number of concept rows the first loop has consumed
    G,             \* the DiGraph under construction
    processed,     \* the connection rows the second loop has consumed, each
                   \* with the value of nodes_exist computed for it
    pc,            \* position of the main program
    graph_data,    \* the structure returned by export_to_json
    node_id,       \* the argument of the outermost trace_container_path call
    stack,         \* the activation records of trace_container_path
    full_path      \* the value returned by the last finished activation (<<>>
                   \* while none has finished)

vars == <<concepts_df, ci, G, processed, pc, graph_data, node_id, stack, full_path>>

----------------------------------------------------------------------------
(* Bounds of the model *)

\* the number of connection rows of connections.csv
MaxRows == 2

\* the number of connection rows when the hierarchy is walked
MaxHierarchyRows == 3

\* the depth of recursion the interpreter allows (a RecursionError beyond it)
MaxDepth == 6

----------------------------------------------------------------------------
(* Values *)

\* pandas' missing value (pd.notna(x) is x # NaN)
NaN == "NaN"

None == "None"

notna(x) == x # NaN

Range(s) == {s[i] : i \in 1..Len(s)}

\* d.get(k, default)
Get(d, k, default) == IF k \in DOMAIN d THEN d[k] ELSE default

\* the dictionary d after d.update(new)
Update(d, new) ==
    [k \in (DOMAIN d) \cup (DOMAIN new) |-> IF k \in DOMAIN new THEN new[k] ELSE d[k]]

\* the dictionary with no key
EmptyDict == [k \in {} |-> None]

----------------------------------------------------------------------------
(* Inputs: data/concepts.csv and data/connections.csv *)

ConceptRow(id) == [node_id |-> id, node_name |-> "name_" \o id, Complexity |-> 1]

\* The concept tables considered: all three concepts; a table without C, in
\* another order and with a row whose node_id is missing.
ConceptTables ==
    { <<ConceptRow("A"), ConceptRow("B"), ConceptRow("C")>>,
      <<ConceptRow("B"), ConceptRow(NaN), ConceptRow("A")>> }

\* (ID, connection_type) of a connection row: two relation rows with their
\* own identifiers, a relation row whose ID is also a concept's node_id, and
\* two 'contains' rows.
IdTypes ==
    { <<"R1", "related">>, <<"R2", "prereq">>, <<"A", "related">>,
      <<"K1", "contains">>, <<"K2", "contains">> }

\* (node_id1, node_id2, node_id3) of a connection row
Participants ==
    { <<"A", "B", NaN>>, <<"B", "A", NaN>>, <<"A", "B", "C">>,
      <<"A", "A", NaN>>, <<"A", "R1", NaN>>, <<NaN, "B", NaN>>,
      <<"A", NaN, NaN>>, <<"B", "C", NaN>>, <<"C", "A", NaN>> }

ConnectionRow(it, p) ==
    [ID |-> it[1], connection_type |-> it[2],
     node_id1 |-> p[1], node_id2 |-> p[2], node_id3 |-> p[3]]

\* the rows of connections.csv are drawn from these; every row has its ID and
\* its connection_type
ConnectionRows == {ConnectionRow(it, p) : it \in IdTypes, p \in Participants}

Cols == <<"node_id1", "node_id2", "node_id3">>

----------------------------------------------------------------------------
(* networkx.DiGraph *)

EmptyGraph == [nodes |-> <<>>, nattr |-> EmptyDict, edges |-> <<>>, eattr |-> EmptyDict]

\* n in G
HasNode(g, n) == n \in Range(g.nodes)

HasEdge(g, u, v) == <<u, v>> \in Range(g.edges)

\* G.add_node(n, **attrs): a new node gets attrs, an existing node keeps its
\* place and its attributes are updated with attrs
AddNode(g, n, attrs) ==
    IF HasNode(g, n)
    THEN [g EXCEPT !.nattr = [m \in DOMAIN g.nattr |->
                                 IF m = n THEN Update(g.nattr[m], attrs) ELSE g.nattr[m]]]
    ELSE [g EXCEPT !.nodes = Append(g.nodes, n),
                   !.nattr = [m \in (DOMAIN g.nattr) \cup {n} |->
                                 IF m = n THEN attrs ELSE g.nattr[m]]]

\* add_edge creates a missing end point with no attribute
EnsureNode(g, n) == IF HasNode(g, n) THEN g ELSE AddNode(g, n, EmptyDict)

\* G.add_edge(u, v, **attrs): a new edge gets attrs, an existing edge keeps
\* its place and its attributes are updated with attrs
AddEdge(g, u, v, attrs) ==
    LET g1 == EnsureNode(EnsureNode(g, u), v)
        e  == <<u, v>>
    IN  IF HasEdge(g1, u, v)
        THEN [g1 EXCEPT !.eattr = [f \in DOMAIN g1.eattr |->
                                      IF f = e THEN Update(g1.eattr[f], attrs) ELSE g1.eattr[f]]]
        ELSE [g1 EXCEPT !.edges = Append(g1.edges, e),
                        !.eattr = [f \in (DOMAIN g1.eattr) \cup {e} |->
                                      IF f = e THEN attrs ELSE g1.eattr[f]]]

IsFrom(e, n) == e[1] = n

\* the out-edges of n, in the order its adjacency dictionary holds them
OutEdges(g, n) == SelectSeq(g.edges, LAMBDA e : IsFrom(e, n))

RECURSIVE EdgesFrom(_, _)
EdgesFrom(g, i) ==
    IF i > Len(g.nodes) THEN <<>>
    ELSE OutEdges(g, g.nodes[i]) \o EdgesFrom(g, i + 1)

\* G.edges(data=True): node by node in insertion order, each node's
\* out-edges in insertion order
Edges(g) == EdgesFrom(g, 1)

\* G.neighbors(n): the successors of n
Neighbors(g, n) == [i \in 1..Len(OutEdges(g, n)) |-> OutEdges(g, n)[i][2]]

----------------------------------------------------------------------------
(* create_knowledge_graph *)

ConceptAttrs(row) ==
    [type |-> "concept", name |-> row.node_name, complexity |-> row.Complexity]

\* one iteration of the first loop; dropna(subset=['node_id']) removes the
\* rows without node_id
AddConceptRow(g, row) ==
    IF notna(row.node_id) THEN AddNode(g, row.node_id, ConceptAttrs(row)) ELSE g

\* the check without its third column
NodesExistFirstTwo(g, row) ==
    \A i \in 1..2 : ~(notna(row[Cols[i]]) /\ ~HasNode(g, row[Cols[i]]))

\* lines 37-41
NodesExist(g, row) ==
    \A i \in 1..Len(Cols) : ~(notna(row[Cols[i]]) /\ ~HasNode(g, row[Cols[i]]))

ContainsAttrs(row) == [relationship |-> "contains", connection_id |-> row.ID]

NeighborAttrs == [role |-> "neighbor"]

\* the edge from node_id2 to node_id1
AddContainsReversed(g, row) ==
    IF notna(row.node_id1) /\ notna(row.node_id2)
    THEN AddEdge(g, row.node_id2, row.node_id1, ContainsAttrs(row))
    ELSE g

\* lines 48-51
AddContains(g, row) ==
    IF notna(row.node_id1) /\ notna(row.node_id2)
    THEN AddEdge(g, row.node_id1, row.node_id2, ContainsAttrs(row))
    ELSE g

\* lines 59-61, 64-66 and 69-71: the pair of edges between the reified node
\* and one participant
LinkFirst(g, row) ==
    IF notna(row.node_id1)
    THEN AddEdge(AddEdge(g, row.node_id1, row.ID, NeighborAttrs),
                 row.ID, row.node_id1, NeighborAttrs)
    ELSE g

\* the pair without its second edge
LinkOtherOneWay(g, row, col) ==
    IF notna(row[col])
    THEN AddEdge(g, row.ID, row[col], NeighborAttrs)
    ELSE g

LinkOther(g, row, col) ==
    IF notna(row[col])
    THEN AddEdge(AddEdge(g, row.ID, row[col], NeighborAttrs),
                 row[col], row.ID, NeighborAttrs)
    ELSE g

ReifiedAttrs(row) == [type |-> "reified_connection", connection_type |-> row.connection_type]

\* lines 54-71
Reify(g, row) ==
    LET g0 == AddNode(g, row.ID, ReifiedAttrs(row))
        g1 == LinkFirst(g0, row)
        g2 == LinkOther(g1, row, "node_id2")
    IN  LinkOther(g2, row, "node_id3")

\* lines 33-71: the body of the second loop
ProcessRow(g, row) ==
    IF ~NodesExist(g, row) THEN g
    ELSE IF row.connection_type = "contains" THEN AddContains(g, row)
    ELSE Reify(g, row)

----------------------------------------------------------------------------
(* export_to_json *)

IsConcept(g, n) == Get(g.nattr[n], "type", None) = "concept"

\* lines 218-226: the entry of every node whose type is 'concept'
ConceptEntries(g) ==
    [n \in {m \in Range(g.nodes) : IsConcept(g, m)} |->
        [name         |-> Get(g.nattr[n], "name", n),
         complexity   |-> Get(g.nattr[n], "complexity", "N/A"),
         contains     |-> <<>>,
         contained_by |-> <<>>,
         related      |-> EmptyDict]]

\* line 230 (and line 106)
IsContainsEdge(attrs) ==
    "relationship" \in DOMAIN attrs /\ attrs["relationship"] = "contains"

\* line 236
IsNeighborEdge(attrs) ==
    "role" \in DOMAIN attrs /\ attrs["role"] = "neighbor"

\* the two lists exchanged
ExportContainsSwapped(cs, source, target) ==
    IF source \in DOMAIN cs /\ target \in DOMAIN cs
    THEN [cs EXCEPT ![source].contained_by = Append(@, target),
                    ![target].contains = Append(@, source)]
    ELSE cs

\* lines 232-234
ExportContains(cs, source, target) ==
    IF source \in DOMAIN cs /\ target \in DOMAIN cs
    THEN [cs EXCEPT ![source].contains = Append(@, target),
                    ![target].contained_by = Append(@, source)]
    ELSE cs

IsOtherConcept(cs, n, source) == n \in DOMAIN cs /\ n # source

\* lines 242-243
OtherConcepts(cs, g, source, target) ==
    SelectSeq(Neighbors(g, target), LAMBDA n : IsOtherConcept(cs, n, source))

\* lines 238-249
ExportNeighbor(cs, g, source, target) ==
    IF source \in DOMAIN cs /\ HasNode(g, target)
    THEN LET connection_type == Get(g.nattr[target], "connection_type", "related")
             neighbors == OtherConcepts(cs, g, source, target)
             old == Get(cs[source].related, connection_type, <<>>)
         IN  IF neighbors # <<>>
             THEN [cs EXCEPT ![source].related =
                        Update(@, [t \in {connection_type} |-> old \o neighbors])]
             ELSE cs
    ELSE cs

\* lines 230-249: the body of the loop over the edges
ExportEdge(cs, g, e) ==
    IF IsContainsEdge(g.eattr[e]) THEN ExportContains(cs, e[1], e[2])
    ELSE IF IsNeighborEdge(g.eattr[e]) THEN ExportNeighbor(cs, g, e[1], e[2])
    ELSE cs

RECURSIVE ExportEdges(_, _, _, _)
ExportEdges(cs, g, es, i) ==
    IF i > Len(es) THEN cs
    ELSE ExportEdges(ExportEdge(cs, g, es[i]), g, es, i + 1)

\* lines 252-254: list(set(xs)) keeps one occurrence of each element in an
\* order the program does not fix; the list is represented by its set
Dedup(cs) ==
    [n \in DOMAIN cs |->
        [cs[n] EXCEPT !.related = [t \in DOMAIN cs[n].related |-> Range(cs[n].related[t])]]]

\* lines 212-272: the returned graph_data
ExportToJson(g) ==
    [concepts      |-> Dedup(ExportEdges(ConceptEntries(g), g, Edges(g), 1)),
     relationships |-> <<>>]

----------------------------------------------------------------------------
(* trace_container_path *)

\* the edges out of n instead of the edges into n
IsContainedEdge(g, e, n) == e[1] = n /\ IsContainsEdge(g.eattr[e])

IsContainerEdge(g, e, n) == e[2] = n /\ IsContainsEdge(g.eattr[e])

\* lines 104-107
Containers(g, n) ==
    LET es == SelectSeq(Edges(g), LAMBDA e : IsContainerEdge(g, e, n))
    IN  [i \in 1..Len(es) |-> es[i][1]]

\* no test of the path
NotSeenUnchecked(container, path) == TRUE

\* line 114
NotSeen(container, path) == container \notin Range(path)

\* the activation record of trace_container_path(G, n, path): the loop of
\* line 113 stands before containers[i]; at is "loop" while the activation
\* runs and "call" while it waits for the recursive call of line 116
Activation(g, n, path) ==
    [node_id |-> n, path |-> path, containers |-> Containers(g, n), i |-> 1, at |-> "loop"]

Top == stack[Len(stack)]

Caller == SubSeq(stack, 1, Len(stack) - 1)

\* return value: the activation ends, its caller (if any) receives value
Return(value) ==
    /\ full_path' = value
    /\ stack' = Caller
    /\ pc' = IF Len(stack) = 1 THEN "traced" ELSE pc

----------------------------------------------------------------------------
(* The program *)

Init ==
    /\ concepts_df \in ConceptTables
    /\ ci = 0
    /\ G = EmptyGraph
    /\ processed = <<>>
    /\ pc = "concepts"
    /\ graph_data = None
    /\ node_id = None
    /\ stack = <<>>
    /\ full_path = <<>>

\* lines 25-29: one iteration of the loop over the concept rows
AddConcept ==
    /\ pc = "concepts"
    /\ ci < Len(concepts_df)
    /\ G' = AddConceptRow(G, concepts_df[ci + 1])
    /\ ci' = ci + 1
    /\ pc' = IF ci + 1 = Len(concepts_df) THEN "connections" ELSE "concepts"
    /\ UNCHANGED <<concepts_df, processed, graph_data, node_id, stack, full_path>>

\* lines 32-71: one iteration of the loop over the connection rows
Connection(rows, max) ==
    /\ pc = "connections"
    /\ Len(processed) < max
    /\ \E row \in rows :
          /\ G' = ProcessRow(G, row)
          /\ processed' = Append(processed, [row |-> row, nodes_exist |-> NodesExist(G, row)])
    /\ UNCHANGED <<concepts_df, ci, pc, graph_data, node_id, stack, full_path>>

\* line 73: connections_df is exhausted
ReturnGraph ==
    /\ pc = "connections"
    /\ pc' = "built"
    /\ UNCHANGED <<concepts_df, ci, G, processed, graph_data, node_id, stack, full_path>>

\* lines 196-272
Export ==
    /\ pc = "built"
    /\ graph_data' = ExportToJson(G)
    /\ pc' = "exported"
    /\ UNCHANGED <<concepts_df, ci, G, processed, node_id, stack, full_path>>

\* the identifiers trace_container_path is called with
StartIds == {"A", "B", "C", "R1", "Z"}

\* lines 98-107: the outermost call
TraceEnter ==
    /\ pc = "built"
    /\ \E n \in StartIds :
          /\ node_id' = n
          /\ stack' = <<Activation(G, n, <<n>>)>>
    /\ pc' = "tracing"
    /\ full_path' = <<>>
    /\ UNCHANGED <<concepts_df, ci, G, processed, graph_data>>

\* lines 109-120: up to the next recursive call or return
TraceLoop ==
    /\ pc = "tracing"
    /\ Top.at = "loop"
    /\ IF Top.containers = <<>> \/ Top.i > Len(Top.containers)
       THEN Return(Top.path)
       ELSE LET container == Top.containers[Top.i]
            IN  IF NotSeen(container, Top.path)
                THEN /\ Len(stack) < MaxDepth
                     /\ stack' = Append([stack EXCEPT ![Len(stack)].at = "call"],
                                        Activation(G, container, Append(Top.path, container)))
                     /\ UNCHANGED <<full_path, pc>>
                ELSE /\ stack' = [stack EXCEPT ![Len(stack)].i = @ + 1]
                     /\ UNCHANGED <<full_path, pc>>
    /\ UNCHANGED <<concepts_df, ci, G, processed, graph_data, node_id>>

\* lines 116-118: the recursive call has returned full_path
TraceResume ==
    /\ pc = "tracing"
    /\ Top.at = "call"
    /\ IF full_path # <<>>
       THEN Return(full_path)
       ELSE /\ stack' = [stack EXCEPT ![Len(stack)].i = @ + 1, ![Len(stack)].at = "loop"]
            /\ UNCHANGED <<full_path, pc>>
    /\ UNCHANGED <<concepts_df, ci, G, processed, graph_data, node_id>>

\* the rows considered when the hierarchy is walked
HierarchyRows ==
    {r \in ConnectionRows :
        \/ r.ID = "K1" /\ notna(r.node_id1) /\ notna(r.node_id2) /\ ~notna(r.node_id3)
        \/ r.ID = "R1" /\ r.node_id1 = "A" /\ r.node_id2 = "B" /\ ~notna(r.node_id3)}

Next ==
    \/ AddConcept
    \/ Connection(ConnectionRows, MaxRows)
    \/ ReturnGraph
    \/ Export

Spec == Init /\ [][Next]_vars

NextTrace ==
    \/ AddConcept
    \/ Connection(HierarchyRows, MaxHierarchyRows)
    \/ ReturnGraph
    \/ TraceEnter
    \/ TraceLoop
    \/ TraceResume

\* the interpreter runs a started call to its end
SpecTrace == Init /\ [][NextTrace]_vars /\ WF_vars(TraceLoop) /\ WF_vars(TraceResume)

----------------------------------------------------------------------------
(* Vocabulary of the properties *)

\* the identifiers a connection row names: its non-missing node_id1..node_id3
ParticipantsOf(row) == {row[Cols[i]] : i \in 1..Len(Cols)} \ {NaN}

\* the node_id values of the concept rows
ConceptRowIds == {concepts_df[i].node_id : i \in 1..Len(concepts_df)} \ {NaN}

\* the connection rows that passed the existence check
Kept == {i \in 1..Len(processed) : processed[i].nodes_exist}

ContainsRows == {i \in Kept : processed[i].row.connection_type = "contains"}

ReifiedRows == {i \in Kept : processed[i].row.connection_type # "contains"}

\* the 'contains' rows that name both ends
LinkingRows ==
    {i \in ContainsRows : notna(processed[i].row.node_id1) /\ notna(processed[i].row.node_id2)}

EdgeSet(g) == Range(g.edges)

ContainsEdges(g) == {e \in EdgeSet(g) : IsContainsEdge(g.eattr[e])}

NeighborEdges(g) == {e \in EdgeSet(g) : IsNeighborEdge(g.eattr[e])}

\* the step consumes a connection row
RowStep == Len(processed') = Len(processed) + 1

NewRow == processed'[Len(processed')].row

Finished == pc \in {"built", "exported", "tracing", "traced"}

----------------------------------------------------------------------------
(* Inputs that keep the identifiers of node-producing rows distinct *)

\* the input rows that produce a node named n: the concept rows with that
\* node_id and the reified connection rows with that ID
ProducersOf(n) ==
    {<<"concept", i>> : i \in {k \in 1..ci : concepts_df[k].node_id = n}}
    \cup {<<"connection", i>> : i \in {k \in ReifiedRows : processed[k].row.ID = n}}

\* so far no two input rows have produced nodes sharing one identifier
DistinctIds == \A n \in Range(G.nodes) : Cardinality(ProducersOf(n)) <= 1

----------------------------------------------------------------------------
(* C1 *)

\* C1, as stated: a connection row naming an identifier that is no concept
\* row's node_id leaves the graph as it was, and the loop goes on.
\* (Stated for inputs whose identifiers are distinct, so that a failure is
\* one of this claim and not of C2.)
C1_SkipOnMissingConceptRow ==
    [][(RowStep /\ DistinctIds' /\ \E p \in ParticipantsOf(NewRow) : p \notin ConceptRowIds)
          => (G' = G /\ pc' = "connections")]_vars

\* C1, amended: a connection row naming an identifier that is no node of the
\* graph when the row is processed leaves the graph as it was (no edge, no
\* reified node), and the loop goes on with the following rows.
C1_SkipOnMissingNode ==
    [][(RowStep /\ \E p \in ParticipantsOf(NewRow) : ~HasNode(G, p))
          => (G' = G /\ pc' = "connections")]_vars

\* a row was skipped and a later row added edges
C1_Witness ==
    \E i, j \in 1..Len(processed) :
        /\ i < j
        /\ \E p \in ParticipantsOf(processed[i].row) : p \notin ConceptRowIds
        /\ ~processed[i].nodes_exist
        /\ processed[j].nodes_exist
        /\ G.edges # <<>>

----------------------------------------------------------------------------
(* C2 *)

\* C2: no two input rows produce nodes sharing one identifier, and a node
\* added in the concept pass is a node of type 'concept' ever after.
C2_Uniqueness ==
    /\ DistinctIds
    /\ \A i \in 1..ci :
          notna(concepts_df[i].node_id) =>
              /\ HasNode(G, concepts_df[i].node_id)
              /\ IsConcept(G, concepts_df[i].node_id)

----------------------------------------------------------------------------
(* C3 *)

OutNeighborEdges(g, r) == {e \in NeighborEdges(g) : e[1] = r}

InNeighborEdges(g, r) == {e \in NeighborEdges(g) : e[2] = r}

PairedWith(g, r, p) ==
    /\ <<r, p>> \in NeighborEdges(g)
    /\ <<p, r>> \in NeighborEdges(g)

\* C3, as stated: in the finished graph the reified node of a row has exactly
\* n outgoing and n incoming Neighbor edges, one pair per participant.
\* (Stated for inputs whose identifiers are distinct, see C2.)
C3_ExactlyOnePairPerParticipant ==
    (Finished /\ DistinctIds) =>
        \A i \in ReifiedRows :
            LET row == processed[i].row
            IN  /\ \A p \in ParticipantsOf(row) : PairedWith(G, row.ID, p)
                /\ Cardinality(OutNeighborEdges(G, row.ID)) = Cardinality(ParticipantsOf(row))
                /\ Cardinality(InNeighborEdges(G, row.ID)) = Cardinality(ParticipantsOf(row))

\* C3, amended: the reified node of a row has a Neighbor edge to and a
\* Neighbor edge from each participant of the row, hence at least n outgoing
\* and n incoming Neighbor edges.
C3_OnePairPerParticipant ==
    \A i \in ReifiedRows :
        LET row == processed[i].row
        IN  /\ HasNode(G, row.ID)
            /\ \A p \in ParticipantsOf(row) : PairedWith(G, row.ID, p)
            /\ Cardinality(OutNeighborEdges(G, row.ID)) >= Cardinality(ParticipantsOf(row))
            /\ Cardinality(InNeighborEdges(G, row.ID)) >= Cardinality(ParticipantsOf(row))

\* a ternary row was reified, and the graph is finished
C3_Witness ==
    /\ Finished
    /\ \E i \in ReifiedRows :
          /\ Cardinality(ParticipantsOf(processed[i].row)) = 3
          /\ Cardinality(OutNeighborEdges(G, processed[i].row.ID)) = 3

----------------------------------------------------------------------------
(* C4 *)

Entry(n) == graph_data.concepts[n]

Exported(n) == n \in DOMAIN graph_data.concepts

\* p lists q under connection type t in its 'related' mapping
Lists(p, t, q) ==
    /\ Exported(p)
    /\ t \in DOMAIN Entry(p).related
    /\ q \in Entry(p).related[t]

\* C4: in the structure export_to_json returns, every participant of a
\* reified row lists every other participant of the row under the row's
\* connection type, and never itself.  (Stated for the rows whose
\* participants are all concepts and for inputs whose identifiers are
\* distinct, see C2: the failure is then the one of C10.)
C4_RelatedSymmetry ==
    (pc = "exported" /\ DistinctIds) =>
        \A i \in ReifiedRows :
            LET row == processed[i].row
            IN  (\A p \in ParticipantsOf(row) : IsConcept(G, p)) =>
                    \A p \in ParticipantsOf(row) :
                        /\ \A q \in ParticipantsOf(row) \ {p} : Lists(p, row.connection_type, q)
                        /\ ~Lists(p, row.connection_type, p)

----------------------------------------------------------------------------
(* C5 *)

InContains(a, b) == Exported(a) /\ b \in Range(Entry(a).contains)

InContainedBy(a, b) == Exported(a) /\ b \in Range(Entry(a).contained_by)

\* a row that passed the check links a to b by 'contains'
Links(a, b) ==
    \E i \in LinkingRows : processed[i].row.node_id1 = a /\ processed[i].row.node_id2 = b

\* C5, as stated: if a 'contains' row links A to B then B is in A's
\* 'contains' list and A in B's 'contained_by' list, and never the reverse.
\* (Stated for concepts A # B and inputs whose identifiers are distinct, see
\* C2.)
C5_ContainsDirectionalNever ==
    (pc = "exported" /\ DistinctIds) =>
        \A i \in LinkingRows :
            LET a == processed[i].row.node_id1
                b == processed[i].row.node_id2
            IN  (a # b /\ IsConcept(G, a) /\ IsConcept(G, b)) =>
                    /\ InContains(a, b)
                    /\ InContainedBy(b, a)
                    /\ ~InContains(b, a)
                    /\ ~InContainedBy(a, b)

\* C5, amended: if a 'contains' row links A to B and both are nodes of type
\* 'concept' in the finished graph, then B is in A's 'contains' list and A in
\* B's 'contained_by' list; the reverse (A in B's 'contains' list, B in A's
\* 'contained_by' list) holds only if a 'contains' row links B to A.
C5_ContainsDirectional ==
    pc = "exported" =>
        \A i \in LinkingRows :
            LET a == processed[i].row.node_id1
                b == processed[i].row.node_id2
            IN  /\ (IsConcept(G, a) /\ IsConcept(G, b)) =>
                       (InContains(a, b) /\ InContainedBy(b, a))
                /\ InContains(b, a) => Links(b, a)
                /\ InContainedBy(a, b) => Links(b, a)

\* A contains B was exported one way only
C5_Witness ==
    /\ pc = "exported"
    /\ \E i \in LinkingRows :
          LET a == processed[i].row.node_id1
              b == processed[i].row.node_id2
          IN  /\ a # b
              /\ InContains(a, b)
              /\ InContainedBy(b, a)
              /\ ~InContains(b, a)
              /\ ~InContainedBy(a, b)

----------------------------------------------------------------------------
(* C6 *)

\* the Contains edges of G form a cycle through A and B
HasContainsCycle ==
    /\ <<"A", "B">> \in ContainsEdges(G)
    /\ <<"B", "A">> \in ContainsEdges(G)

\* C6: every call trace_container_path(G, node_id) returns, also when the
\* Contains edges form a cycle, and returns a path of length at least 1.
C6_CycleSafety ==
    /\ (pc = "tracing") ~> (pc = "traced")
    /\ [](pc = "traced" => Len(full_path) >= 1)

\* a call on a node of a Contains cycle has returned a path through the cycle
C6_Witness ==
    /\ pc = "traced"
    /\ HasContainsCycle
    /\ node_id \in {"A", "B"}
    /\ Len(full_path) >= 2

----------------------------------------------------------------------------
(* C9 *)

\* the sources of the Contains edges into n
ContainersOf(n) == {e[1] : e \in {f \in ContainsEdges(G) : f[2] = n}}

\* C9: the returned path starts with node_id, holds no node twice, each
\* later element is the source of a Contains edge into the element before
\* it, and every container of the last element is already in the path.
C9_PathShape ==
    pc = "traced" =>
        /\ Len(full_path) >= 1
        /\ full_path[1] = node_id
        /\ \A i, j \in 1..Len(full_path) : i # j => full_path[i] # full_path[j]
        /\ \A k \in 2..Len(full_path) : full_path[k] \in ContainersOf(full_path[k - 1])
        /\ ContainersOf(full_path[Len(full_path)]) \subseteq Range(full_path)

\* the walk climbed two levels, or stopped at a node whose containers were
\* all visited
C9_Witness ==
    /\ pc = "traced"
    /\ \/ Len(full_path) >= 3
       \/ ContainersOf(full_path[Len(full_path)]) # {}

----------------------------------------------------------------------------
(* C7 *)

\* the ordered pairs the 'contains' rows link
LinkedPairs ==
    {<<processed[i].row.node_id1, processed[i].row.node_id2>> : i \in LinkingRows}

\* the last 'contains' row linking the pair e
LastLinking(e) ==
    CHOOSE i \in LinkingRows :
        /\ <<processed[i].row.node_id1, processed[i].row.node_id2>> = e
        /\ \A j \in LinkingRows :
              <<processed[j].row.node_id1, processed[j].row.node_id2>> = e => j <= i

\* C7, as stated: every 'contains' row that passes the existence check
\* creates one new Contains edge node_id1 -> node_id2 carrying its ID and no
\* edge node_id2 -> node_id1; so the Contains edges are as many as these rows
\* and each row's ID is carried by its edge.
C7_OneEdgePerRow ==
    /\ [][(RowStep /\ NewRow.connection_type = "contains" /\ NodesExist(G, NewRow)) =>
            LET e == <<NewRow.node_id1, NewRow.node_id2>>
            IN  /\ EdgeSet(G') = EdgeSet(G) \cup {e}
                /\ e \notin EdgeSet(G)
                /\ e \in ContainsEdges(G')
                /\ G'.eattr[e]["connection_id"] = NewRow.ID]_vars
    /\ [](/\ Cardinality(ContainsEdges(G)) = Cardinality(ContainsRows)
          /\ \A i \in ContainsRows :
                LET e == <<processed[i].row.node_id1, processed[i].row.node_id2>>
                IN  /\ e \in ContainsEdges(G)
                    /\ G.eattr[e]["connection_id"] = processed[i].row.ID)

\* C7, amended: a 'contains' row that passes the existence check and names
\* both node_id1 and node_id2 leaves one Contains edge node_id1 -> node_id2
\* carrying its ID (a new edge, or the edge already there, updated) and
\* changes no other edge; a row lacking node_id1 or node_id2 adds no edge.
\* So the Contains edges are as many as the distinct pairs these rows link,
\* and each carries the ID of the last row linking its pair.
C7_OneEdgePerPair ==
    /\ [][(RowStep /\ NewRow.connection_type = "contains" /\ NodesExist(G, NewRow)) =>
            LET e == <<NewRow.node_id1, NewRow.node_id2>>
            IN  IF notna(NewRow.node_id1) /\ notna(NewRow.node_id2)
                THEN /\ EdgeSet(G') = EdgeSet(G) \cup {e}
                     /\ e \in ContainsEdges(G')
                     /\ G'.eattr[e]["connection_id"] = NewRow.ID
                     /\ \A f \in EdgeSet(G) \ {e} : G'.eattr[f] = G.eattr[f]
                ELSE G' = G]_vars
    /\ [](/\ ContainsEdges(G) = LinkedPairs
          /\ \A e \in ContainsEdges(G) :
                G.eattr[e]["connection_id"] = processed[LastLinking(e)].row.ID)

\* two 'contains' rows passed the check and left one Contains edge: both
\* linked the same pair, or one of them lacked an end
C7_Witness ==
    /\ Cardinality(LinkingRows) >= 1
    /\ Cardinality(ContainsRows) = 2
    /\ Cardinality(LinkedPairs) = 1

----------------------------------------------------------------------------
(* C10 *)

HasContainsAttrs(attrs) == IsContainsEdge(attrs) /\ "connection_id" \in DOMAIN attrs

\* C10: every edge is a Contains edge or a Neighbor edge and never both; a
\* 'contains' row naming a reified node leaves the Neighbor edges as they
\* were.  (Stated for inputs whose identifiers are distinct, see C2.)
C10_ExclusiveVariants ==
    DistinctIds =>
        \A e \in EdgeSet(G) :
            /\ HasContainsAttrs(G.eattr[e]) \/ IsNeighborEdge(G.eattr[e])
            /\ ~(IsContainsEdge(G.eattr[e]) /\ IsNeighborEdge(G.eattr[e]))

====
